---- MODULE Spec2Model ----
(***************************************************************************)
(* A model of the schlog console logger (src/index.ts): the LogLevel       *)
(* registry, the Logger's two mutable fields, threshold resolution from    *)
(* LOG_LEVEL at construction, the two formatters and log with its four     *)
(* async wrappers.                                                         *)
(*                                                                         *)
(* JavaScript strings are sequences of one-character strings, so that      *)
(* ===, concatenation, toUpperCase, parseInt and JSON.stringify are        *)
(* computed character by character.  An ANSI escape sequence written by    *)
(* chalk is one element of such a sequence ("ESC[31m").  JavaScript        *)
(* values that may be undefined are tagged records (Undef, Str, levels).   *)
(***************************************************************************)
EXTENDS Integers, Sequences, FiniteSets, TLC

VARIABLES
    pc,          \* "new" before `new Logger()`, "ready" after the constructor
    env,         \* process.env.LOG_LEVEL: Undef or Str(chars)
    logLevel,    \* Logger.logLevel
    timeFormat,  \* Logger.timeFormat
    stdout,      \* lines written by console.log, oldest first
    stderr,      \* lines written by console.error, oldest first
    calls,       \* how many calls the program has made on the Logger since construction
    ret          \* the last call: its name, arguments, value and the state it ran in

vars == <<pc, env, logLevel, timeFormat, stdout, stderr, calls, ret>>

----------------------------------------------------------------------------
(* Bounds of the model *)

\* longest LOG_LEVEL value enumerated character by character
MaxLen == 2
\* most calls a run makes on the Logger after constructing it
MaxCalls == 2

----------------------------------------------------------------------------
(* JavaScript values *)

Undef == [type |-> "undefined"]
Str(s) == [type |-> "string", chars |-> s]

RECURSIVE Concat(_)
Concat(ss) == IF ss = <<>> THEN <<>> ELSE Head(ss) \o Concat(Tail(ss))

LowerLetters == <<"a","b","c","d","e","f","g","h","i","j","k","l","m",
                  "n","o","p","q","r","s","t","u","v","w","x","y","z">>
UpperLetters == <<"A","B","C","D","E","F","G","H","I","J","K","L","M",
                  "N","O","P","Q","R","S","T","U","V","W","X","Y","Z">>

UpperChar(c) ==
    IF \E i \in 1..26 : LowerLetters[i] = c
    THEN UpperLetters[CHOOSE i \in 1..26 : LowerLetters[i] = c]
    ELSE c

toUpperCase(s) == [i \in 1..Len(s) |-> UpperChar(s[i])]

Digits == <<"0","1","2","3","4","5","6","7","8","9">>
HexLetters == <<"a","b","c","d","e","f">>

\* the value of character c as a digit in the given radix, or -1
DigitValue(c, radix) ==
    IF \E i \in 1..10 : Digits[i] = c
    THEN (CHOOSE i \in 1..10 : Digits[i] = c) - 1
    ELSE IF radix = 16 /\ \E i \in 1..6 : UpperChar(HexLetters[i]) = UpperChar(c)
    THEN 9 + (CHOOSE i \in 1..6 : UpperChar(HexLetters[i]) = UpperChar(c))
    ELSE -1

WhiteSpace == {" ", "\t", "\n"}

RECURSIVE SkipWhiteSpace(_)
SkipWhiteSpace(s) ==
    IF s # <<>> /\ Head(s) \in WhiteSpace THEN SkipWhiteSpace(Tail(s)) ELSE s

\* the digits of the longest prefix of s that are digits of the radix
RECURSIVE DigitPrefix(_, _)
DigitPrefix(s, radix) ==
    IF s # <<>> /\ DigitValue(Head(s), radix) >= 0
    THEN <<DigitValue(Head(s), radix)>> \o DigitPrefix(Tail(s), radix)
    ELSE <<>>

RECURSIVE DigitsValue(_, _)
DigitsValue(ds, radix) ==
    IF ds = <<>> THEN 0
    ELSE DigitsValue(SubSeq(ds, 1, Len(ds) - 1), radix) * radix + ds[Len(ds)]

NaN == [isNaN |-> TRUE, val |-> 0]
Num(n) == [isNaN |-> FALSE, val |-> n]

\* parseInt(string) with no radix argument: leading white space, a sign, an
\* optional 0x prefix, then the longest run of digits; NaN when that run is
\* empty.  -0 is the integer 0 (-0 === 0 in JavaScript).
parseInt(s) ==
    LET t      == SkipWhiteSpace(s)
        neg    == t # <<>> /\ Head(t) = "-"
        u      == IF t # <<>> /\ Head(t) \in {"-", "+"} THEN Tail(t) ELSE t
        hex    == Len(u) >= 2 /\ u[1] = "0" /\ u[2] \in {"x", "X"}
        radix  == IF hex THEN 16 ELSE 10
        body   == IF hex THEN SubSeq(u, 3, Len(u)) ELSE u
        ds     == DigitPrefix(body, radix)
    IN  IF ds = <<>> THEN NaN
        ELSE Num((IF neg THEN -1 ELSE 1) * DigitsValue(ds, radix))

isNaN(n) == n.isNaN

----------------------------------------------------------------------------
(* LogScope, LogLevel and the registry *)

STDOUT == <<"s","t","d","o","u","t">>
STDERR == <<"s","t","d","e","r","r">>

\* a chalk style: the escape sequences it opens and closes a text with
Chalk(open, close) == [open |-> open, close |-> close]
ApplyChalk(c, text) == c.open \o text \o c.close

chalk_red_bold    == Chalk(<<"ESC[31m", "ESC[1m">>, <<"ESC[22m", "ESC[39m">>)
chalk_yellow_bold == Chalk(<<"ESC[33m", "ESC[1m">>, <<"ESC[22m", "ESC[39m">>)
chalk_green_bold  == Chalk(<<"ESC[32m", "ESC[1m">>, <<"ESC[22m", "ESC[39m">>)
chalk_blue_bold   == Chalk(<<"ESC[34m", "ESC[1m">>, <<"ESC[22m", "ESC[39m">>)
chalk_gray        == Chalk(<<"ESC[90m">>, <<"ESC[39m">>)

LogLevel(name, color, priority, scope) ==
    [type |-> "object", name |-> name, color |-> color,
     priority |-> priority, scope |-> scope]

logLevels ==
    << LogLevel(<<"e","r","r","o","r">>, chalk_red_bold, 0, STDERR),
       LogLevel(<<"w","a","r","n">>, chalk_yellow_bold, 1, STDERR),
       LogLevel(<<"i","n","f","o">>, chalk_green_bold, 2, STDOUT),
       LogLevel(<<"d","e","b","u","g">>, chalk_blue_bold, 3, STDOUT) >>

\* arr[i] for a JavaScript (0-based) index: undefined outside the array
At(arr, i) == IF i \in 0..(Len(arr) - 1) THEN arr[i + 1] ELSE Undef

defaultLogLevel == At(logLevels, 2)

\* Array.prototype.findIndex, given the positions of arr whose elements
\* satisfy the callback: the first of them as a 0-based index, or -1
FindIndex(arr, hits) ==
    IF hits = {} THEN -1
    ELSE (CHOOSE i \in hits : \A j \in hits : i <= j) - 1

\* a lookup that ignores case
getLogLevelByName_IgnoreCase(name) ==
    At(logLevels, FindIndex(logLevels,
        {i \in 1..Len(logLevels) : toUpperCase(logLevels[i].name) = toUpperCase(name)}))

getLogLevelByName(name) ==
    At(logLevels, FindIndex(logLevels,
        {i \in 1..Len(logLevels) : logLevels[i].name = name}))

getLogLevelByPriority(priority) ==
    At(logLevels, FindIndex(logLevels,
        {i \in 1..Len(logLevels) : logLevels[i].priority = priority}))

\* !x for the values the constructor tests
Falsy(v) == v = Undef \/ v = Str(<<>>)

----------------------------------------------------------------------------
(* moment().format(pattern) *)

\* the wall clock: the constructor runs at 09:59:58 and each later call one
\* second after the one before it
ClockStart == 9 * 3600 + 59 * 60 + 58

TimeOf(secs) ==
    [h |-> (secs \div 3600) % 24, m |-> (secs \div 60) % 60, s |-> secs % 60]

Clock(n) == TimeOf(ClockStart + n)

NumToStr(n) ==
    IF n < 10 THEN <<Digits[n + 1]>>
    ELSE <<Digits[(n \div 10) + 1], Digits[(n % 10) + 1]>>

Pad2(n) == IF n < 10 THEN <<"0">> \o NumToStr(n) ELSE NumToStr(n)

\* the tokens HH, H, mm, m, ss, s are replaced by the fields of the time;
\* every other character of the patterns used here is copied
RECURSIVE momentFormat(_, _)
momentFormat(now, pattern) ==
    IF pattern = <<>> THEN <<>>
    ELSE LET c      == Head(pattern)
             double == Len(pattern) >= 2 /\ pattern[2] = c
             field  == CASE c = "H" -> now.h
                         [] c = "m" -> now.m
                         [] c = "s" -> now.s
                         [] OTHER -> -1
         IN  IF field < 0 THEN <<c>> \o momentFormat(now, Tail(pattern))
             ELSE IF double
             THEN Pad2(field) \o momentFormat(now, Tail(Tail(pattern)))
             ELSE NumToStr(field) \o momentFormat(now, Tail(pattern))

HHmmss == <<"H","H",":","m","m",":","s","s">>

----------------------------------------------------------------------------
(* Logger.format, Logger.formatJson *)

format(tf, level, message, notime, now) ==
    LET time == momentFormat(now, tf)
        line == ApplyChalk(level.color, toUpperCase(level.name)) \o <<" ">> \o message
    IN  IF ~notime
        THEN <<"[">> \o ApplyChalk(chalk_gray, time) \o <<"]", " ">> \o line
        ELSE line

\* JSON.stringify of a string: quoted, with " and \ escaped
RECURSIVE JsonEscape(_)
JsonEscape(s) ==
    IF s = <<>> THEN <<>>
    ELSE (IF Head(s) \in {"\"", "\\"} THEN <<"\\", Head(s)>> ELSE <<Head(s)>>)
         \o JsonEscape(Tail(s))

JsonString(s) == <<"\"">> \o JsonEscape(s) \o <<"\"">>

JsonNumber(n) == IF n < 0 THEN <<"-">> \o NumToStr(-n) ELSE NumToStr(n)

JsonKey(k) == JsonString(k) \o <<":">>

\* JSON.stringify of a LogLevel: color is a function (a Chalk instance) and
\* JSON.stringify leaves function-valued properties out
JsonLevel(level) ==
    Concat(<< <<"{">>,
              JsonKey(<<"n","a","m","e">>), JsonString(level.name), <<",">>,
              JsonKey(<<"p","r","i","o","r","i","t","y">>), JsonNumber(level.priority), <<",">>,
              JsonKey(<<"s","c","o","p","e">>), JsonString(level.scope),
              <<"}">> >>)

\* formatJson reading the Logger's timeFormat, as format does
formatJson_UsesTimeFormat(level, message, now) ==
    LET time == momentFormat(now, timeFormat)
    IN  Concat(<< <<"{">>,
                  JsonKey(<<"t","i","m","e">>), JsonString(time), <<",">>,
                  JsonKey(<<"l","e","v","e","l">>), JsonLevel(level), <<",">>,
                  JsonKey(<<"m","e","s","s","a","g","e">>), JsonString(message),
                  <<"}">> >>)

formatJson(level, message, now) ==
    LET time == momentFormat(now, HHmmss)
    IN  Concat(<< <<"{">>,
                  JsonKey(<<"t","i","m","e">>), JsonString(time), <<",">>,
                  JsonKey(<<"l","e","v","e","l">>), JsonLevel(level), <<",">>,
                  JsonKey(<<"m","e","s","s","a","g","e">>), JsonString(message),
                  <<"}">> >>)

----------------------------------------------------------------------------
(* Logger.log *)

\* the test with > for >=
Passes_Strict(threshold, level) == threshold.priority > level.priority

\* the test of line 130
Passes(threshold, level) == threshold.priority >= level.priority

\* the two sinks exchanged
UsesStderr_Swapped(level) == level.scope = STDOUT

\* the sink line 132 picks
UsesStderr(level) == level.scope = STDERR

\* a dropped call returning "" where the code returns nothing
log_EmptyWhenDropped(threshold, tf, out, err, level, message, json, now) ==
    IF threshold.priority >= level.priority
    THEN LET line == IF json THEN formatJson(level, message, now)
                     ELSE format(tf, level, message, FALSE, now)
         IN  [stdout |-> IF level.scope = STDERR THEN out ELSE Append(out, line),
              stderr |-> IF level.scope = STDERR THEN Append(err, line) ELSE err,
              value  |-> Str(line)]
    ELSE [stdout |-> out, stderr |-> err, value |-> Str(<<>>)]

\* log(level, message, json) run with the given fields and sinks, reading the
\* clock as now: the sinks after the call and the value returned
log(threshold, tf, out, err, level, message, json, now) ==
    IF Passes(threshold, level)
    THEN LET line == IF json THEN formatJson(level, message, now)
                     ELSE format(tf, level, message, FALSE, now)
         IN  [stdout |-> IF UsesStderr(level) THEN out ELSE Append(out, line),
              stderr |-> IF UsesStderr(level) THEN Append(err, line) ELSE err,
              value  |-> Str(line)]
    ELSE [stdout |-> out, stderr |-> err, value |-> Undef]

\* the four async wrappers: the body runs synchronously, so the value is what
\* the returned promise is already resolved with when the call returns
error(threshold, tf, out, err, message, json, now) ==
    log(threshold, tf, out, err, At(logLevels, 0), message, json, now)

\* warn passing the level of error
warn_AsError(threshold, tf, out, err, message, json, now) ==
    log(threshold, tf, out, err, At(logLevels, 0), message, json, now)

warn(threshold, tf, out, err, message, json, now) ==
    log(threshold, tf, out, err, At(logLevels, 1), message, json, now)

info(threshold, tf, out, err, message, json, now) ==
    log(threshold, tf, out, err, At(logLevels, 2), message, json, now)

debug(threshold, tf, out, err, message, json, now) ==
    log(threshold, tf, out, err, At(logLevels, 3), message, json, now)

----------------------------------------------------------------------------
(* The constructor's threshold resolution *)

\* resolution that forgets the numeric path
resolveLogLevel_NameOnly(e) ==
    IF Falsy(e) THEN defaultLogLevel
    ELSE LET levelFromName == getLogLevelByName(e.chars)
         IN  IF levelFromName = Undef THEN defaultLogLevel ELSE levelFromName

resolveLogLevel(e) ==
    IF Falsy(e) THEN defaultLogLevel
    ELSE IF isNaN(parseInt(e.chars))
    THEN LET levelFromName == getLogLevelByName(e.chars)
         IN  IF levelFromName = Undef THEN defaultLogLevel ELSE levelFromName
    ELSE LET levelFromNum == getLogLevelByPriority(parseInt(e.chars).val)
         IN  IF levelFromNum = Undef THEN defaultLogLevel ELSE levelFromNum

UsingLogLevel == <<"U","s","i","n","g"," ","l","o","g"," ","l","e","v","e","l",":"," ">>

----------------------------------------------------------------------------
(* Inputs *)

\* characters LOG_LEVEL values are enumerated over
ConfigChars == {"0", "1", "2", "3", "9", "-", "+", " ", "x", "a"}

RECURSIVE StringsUpTo(_, _)
StringsUpTo(chars, n) ==
    IF n = 0 THEN {<<>>}
    ELSE LET shorter == StringsUpTo(chars, n - 1)
         IN  shorter \cup {Append(t, c) : t \in shorter, c \in chars}

LevelNames == {logLevels[i].name : i \in 1..Len(logLevels)}

\* LOG_LEVEL values longer than MaxLen that are tried as well
WordConfigs ==
    LevelNames \cup { <<"b","o","g","u","s">>, <<"D","e","b","u","g">>,
                      <<"d","e","b","u","g"," ">>, <<"0","x","3">>, <<"1",".","5">>,
                      <<"1","a","b","c">>, <<" ","2">>, <<"9","9">> }

AllConfigs ==
    {Undef} \cup {Str(c) : c \in StringsUpTo(ConfigChars, MaxLen) \cup WordConfigs}

\* the LOG_LEVEL values the runs that go on to log start from
RunConfigs == {Undef, Str(<<"d","e","b","u","g">>)}

\* a level the caller builds with `new LogLevel(...)`
traceLevel == LogLevel(<<"t","r","a","c","e">>, chalk_gray, 4, STDOUT)

RegistryLevels == {logLevels[i] : i \in 1..Len(logLevels)}
InputLevels == RegistryLevels \cup {traceLevel}

TimeFormats == { HHmmss, <<"m","m",":","H">> }

Messages == { <<"r","e","a","d","y">>, <<"x">> }

LookupNames ==
    LevelNames \cup { <<"n","o","n","e","x","i","s","t","e","n","t">>, <<"E","r","r","o","r">>,
                      <<"I","N","F","O">>, <<"w","a","r","n"," ">>, <<>>, <<"2">> }

LookupPriorities == {-1, 0, 1, 2, 3, 4, 99}

----------------------------------------------------------------------------------------------------------------------------------------------
(* Actions *)

\* the fields and sinks a call starts from
Pre == [logLevel |-> logLevel, timeFormat |-> timeFormat,
        stdout |-> stdout, stderr |-> stderr]

InitWith(configs) ==
    /\ pc = "new"
    /\ env \in configs
    /\ logLevel = Undef
    /\ timeFormat = HHmmss
    /\ stdout = <<>>
    /\ stderr = <<>>
    /\ calls = 0
    /\ ret = [op |-> "none"]

\* a constructor that announces before it stores the resolved level, so that
\* the announcement is filtered by the default
Construct_AnnounceFirst ==
    /\ pc = "new"
    /\ LET lvl == resolveLogLevel(env)
           r   == debug(defaultLogLevel, timeFormat, stdout, stderr,
                        UsingLogLevel \o lvl.name, FALSE, Clock(0))
       IN  /\ logLevel' = lvl
           /\ stdout' = r.stdout
           /\ stderr' = r.stderr
           /\ ret' = [op |-> "constructor", now |-> Clock(0), value |-> r.value]
    /\ pc' = "ready"
    /\ UNCHANGED <<env, timeFormat, calls>>

\* new Logger()
Construct ==
    /\ pc = "new"
    /\ LET lvl == resolveLogLevel(env)
           r   == debug(lvl, timeFormat, stdout, stderr,
                        UsingLogLevel \o lvl.name, FALSE, Clock(0))
       IN  /\ logLevel' = lvl
           /\ stdout' = r.stdout
           /\ stderr' = r.stderr
           /\ ret' = [op |-> "constructor", now |-> Clock(0), value |-> r.value]
    /\ pc' = "ready"
    /\ UNCHANGED <<env, timeFormat, calls>>

\* a call on the constructed Logger, reading the clock as Now
Ready ==
    /\ pc = "ready"
    /\ calls < MaxCalls
    /\ calls' = calls + 1
    /\ UNCHANGED <<pc, env>>

Now == Clock(calls + 1)

\* a setter that accepts only the levels of the registry
SetLogLevel_Validating ==
    /\ pc = "ready"
    /\ calls < MaxCalls
    /\ calls' = calls + 1
    /\ \E level \in InputLevels :
         /\ logLevel' = IF level \in RegistryLevels THEN level ELSE logLevel
         /\ ret' = [op |-> "setLogLevel", level |-> level, value |-> Undef, pre |-> Pre]
    /\ UNCHANGED <<pc, env, timeFormat, stdout, stderr>>

SetLogLevel ==
    /\ Ready
    /\ \E level \in InputLevels :
         /\ logLevel' = level
         /\ ret' = [op |-> "setLogLevel", level |-> level, value |-> Undef, pre |-> Pre]
    /\ UNCHANGED <<timeFormat, stdout, stderr>>

SetTimeFormat ==
    /\ Ready
    /\ \E f \in TimeFormats :
         /\ timeFormat' = f
         /\ ret' = [op |-> "setTimeFormat", format |-> f, value |-> Undef, pre |-> Pre]
    /\ UNCHANGED <<logLevel, stdout, stderr>>

GetLogLevelByName ==
    /\ Ready
    /\ \E name \in LookupNames :
         ret' = [op |-> "getLogLevelByName", name |-> name,
                 value |-> getLogLevelByName(name), pre |-> Pre]
    /\ UNCHANGED <<logLevel, timeFormat, stdout, stderr>>

GetLogLevelByPriority ==
    /\ Ready
    /\ \E priority \in LookupPriorities :
         ret' = [op |-> "getLogLevelByPriority", priority |-> priority,
                 value |-> getLogLevelByPriority(priority), pre |-> Pre]
    /\ UNCHANGED <<logLevel, timeFormat, stdout, stderr>>

Format ==
    /\ Ready
    /\ \E level \in InputLevels, message \in Messages, notime \in BOOLEAN :
         ret' = [op |-> "format", level |-> level, message |-> message, notime |-> notime,
                 now |-> Now, value |-> Str(format(timeFormat, level, message, notime, Now)),
                 pre |-> Pre]
    /\ UNCHANGED <<logLevel, timeFormat, stdout, stderr>>

FormatJson ==
    /\ Ready
    /\ \E level \in InputLevels, message \in Messages :
         ret' = [op |-> "formatJson", level |-> level, message |-> message,
                 now |-> Now, value |-> Str(formatJson(level, message, Now)), pre |-> Pre]
    /\ UNCHANGED <<logLevel, timeFormat, stdout, stderr>>

\* the effect r of a logging call on the sinks, and its record
Called(op, level, message, json, r) ==
    /\ stdout' = r.stdout
    /\ stderr' = r.stderr
    /\ ret' = [op |-> op, level |-> level, message |-> message, json |-> json,
               now |-> Now, value |-> r.value, pre |-> Pre]
    /\ UNCHANGED <<logLevel, timeFormat>>

Log ==
    /\ Ready
    /\ \E level \in InputLevels, message \in Messages, json \in BOOLEAN :
         Called("log", level, message, json,
                log(logLevel, timeFormat, stdout, stderr, level, message, json, Now))

Error ==
    /\ Ready
    /\ \E message \in Messages, json \in BOOLEAN :
         Called("error", At(logLevels, 0), message, json,
                error(logLevel, timeFormat, stdout, stderr, message, json, Now))

Warn ==
    /\ Ready
    /\ \E message \in Messages, json \in BOOLEAN :
         Called("warn", At(logLevels, 1), message, json,
                warn(logLevel, timeFormat, stdout, stderr, message, json, Now))

Info ==
    /\ Ready
    /\ \E message \in Messages, json \in BOOLEAN :
         Called("info", At(logLevels, 2), message, json,
                info(logLevel, timeFormat, stdout, stderr, message, json, Now))

Debug ==
    /\ Ready
    /\ \E message \in Messages, json \in BOOLEAN :
         Called("debug", At(logLevels, 3), message, json,
                debug(logLevel, timeFormat, stdout, stderr, message, json, Now))

Init == InitWith(RunConfigs)

Next ==
    \/ Construct
    \/ SetLogLevel
    \/ SetTimeFormat
    \/ GetLogLevelByName
    \/ GetLogLevelByPriority
    \/ Format
    \/ FormatJson
    \/ Log
    \/ Error
    \/ Warn
    \/ Info
    \/ Debug

Spec == Init /\ [][Next]_vars

\* construction alone, over every enumerated LOG_LEVEL value
InitConfig == InitWith(AllConfigs)

NextConfig == Construct

SpecConfig == InitConfig /\ [][NextConfig]_vars

----------------------------------------------------------------------------
(* Properties *)

LoggingOps == {"log", "error", "warn", "info", "debug"}
PureOps == {"getLogLevelByName", "getLogLevelByPriority", "format", "formatJson"}
SetterOps == {"setLogLevel", "setTimeFormat"}

\* the last call was made on the constructed Logger
AfterCall == ret.op \in LoggingOps \cup PureOps \cup SetterOps

\* the last call was a logging call
AfterLog == ret.op \in LoggingOps

\* the lines the last call added to each sink
NewOut == SubSeq(stdout, Len(ret.pre.stdout) + 1, Len(stdout))
NewErr == SubSeq(stderr, Len(ret.pre.stderr) + 1, Len(stderr))

\* the last call only appended to the sinks
SinksExtended ==
    /\ Len(stdout) >= Len(ret.pre.stdout)
    /\ Len(stderr) >= Len(ret.pre.stderr)
    /\ SubSeq(stdout, 1, Len(ret.pre.stdout)) = ret.pre.stdout
    /\ SubSeq(stderr, 1, Len(ret.pre.stderr)) = ret.pre.stderr

SinksUnchanged == stdout = ret.pre.stdout /\ stderr = ret.pre.stderr

\* needle occurs in hay as a run of consecutive characters
Contains(hay, needle) ==
    \E i \in 0..(Len(hay) - Len(needle)) : SubSeq(hay, i + 1, i + Len(needle)) = needle

StartsWith(hay, needle) ==
    Len(hay) >= Len(needle) /\ SubSeq(hay, 1, Len(needle)) = needle

LevelNamed(name) == CHOOSE l \in RegistryLevels : l.name = name
ErrorLevel == LevelNamed(<<"e","r","r","o","r">>)
WarnLevel  == LevelNamed(<<"w","a","r","n">>)
InfoLevel  == LevelNamed(<<"i","n","f","o">>)
DebugLevel == LevelNamed(<<"d","e","b","u","g">>)

\* C1: a logging call writes a line iff the threshold in effect when it is
\* made has a priority >= the priority of the call's level; what it wrote
\* stays in the sinks, and a call that is not a logging call (setLogLevel
\* among them) leaves both sinks as they were.
C1_WritesIffThresholdAllows ==
    AfterCall =>
        /\ SinksExtended
        /\ AfterLog =>
             (Len(NewOut) + Len(NewErr) =
                 IF ret.pre.logLevel.priority >= ret.level.priority THEN 1 ELSE 0)
        /\ ~AfterLog => SinksUnchanged

\* an info line was written under threshold info and a later setLogLevel to
\* error has left it in the sink
C1_Witness ==
    /\ ret.op = "setLogLevel"
    /\ ret.level = ErrorLevel
    /\ ret.pre.logLevel = InfoLevel
    /\ Len(stdout) = 1
    /\ Contains(stdout[1], <<"I","N","F","O">>)

\* C2: a logging call returns undefined (never "") exactly when the threshold
\* does not let its level through, and then writes nothing; otherwise it
\* writes exactly one line and returns that line.
C2_ReturnsLineOrNothing ==
    AfterLog =>
        IF ret.pre.logLevel.priority >= ret.level.priority
        THEN /\ ret.value.type = "string"
             /\ NewOut \o NewErr = <<ret.value.chars>>
             /\ SinksExtended
        ELSE /\ ret.value = Undef
             /\ ret.value # Str(<<>>)
             /\ SinksUnchanged

\* a dropped call: log at debug under threshold warn
C2_Witness ==
    /\ ret.op = "log"
    /\ ret.level = DebugLevel
    /\ ret.pre.logLevel = WarnLevel
    /\ ret.value = Undef

\* the characters of s are an optional sign followed by decimal digits only
IsIntegerString(s) ==
    LET u == IF s # <<>> /\ Head(s) \in {"-", "+"} THEN Tail(s) ELSE s
    IN  u # <<>> /\ \A i \in 1..Len(u) : \E d \in 1..10 : Digits[d] = u[i]

RECURSIVE DecimalValue(_)
DecimalValue(u) ==
    IF u = <<>> THEN 0
    ELSE 10 * DecimalValue(SubSeq(u, 1, Len(u) - 1))
         + (CHOOSE d \in 0..9 : Digits[d + 1] = u[Len(u)])

IntegerValue(s) ==
    IF Head(s) = "-" THEN 0 - DecimalValue(Tail(s))
    ELSE IF Head(s) = "+" THEN DecimalValue(Tail(s))
    ELSE DecimalValue(s)

\* s does not begin (after white space and a sign) with a decimal digit
IsNonNumericString(s) ==
    LET t == SkipWhiteSpace(s)
        u == IF t # <<>> /\ Head(t) \in {"-", "+"} THEN Tail(t) ELSE t
    IN  s # <<>> /\ (u = <<>> \/ \A d \in 1..10 : Digits[d] # Head(u))

LevelOfPriorityOrInfo(n) ==
    CASE n = 0 -> ErrorLevel
      [] n = 1 -> WarnLevel
      [] n = 2 -> InfoLevel
      [] n = 3 -> DebugLevel
      [] OTHER -> InfoLevel

LevelOfNameOrInfo(s) ==
    IF \E l \in RegistryLevels : l.name = s THEN LevelNamed(s) ELSE InfoLevel

RecognizedConfigs ==
    LevelNames \cup { <<"0">>, <<"1">>, <<"2">>, <<"3">> }

\* C4: every LOG_LEVEL value that is set and is neither "0", "1", "2", "3"
\* nor one of the four level names resolves to info.
C4_OtherValuesFallBackToInfo ==
    (pc = "ready" /\ env # Undef /\ env.chars \notin RecognizedConfigs)
        => logLevel = InfoLevel

\* C5: a line that a logging call emits goes to the sink of its level's
\* scope and to no other: stderr for error and warn, stdout for info and
\* debug, whatever the threshold and the json flag.
C5_SinkFollowsScope ==
    (AfterLog /\ ret.value # Undef) =>
        /\ ret.level \in {ErrorLevel, WarnLevel}
              => (NewErr = <<ret.value.chars>> /\ stdout = ret.pre.stdout)
        /\ ret.level \in {InfoLevel, DebugLevel}
              => (NewOut = <<ret.value.chars>> /\ stderr = ret.pre.stderr)
        /\ IF ret.level.scope = STDERR
           THEN NewErr = <<ret.value.chars>> /\ stdout = ret.pre.stdout
           ELSE NewOut = <<ret.value.chars>> /\ stderr = ret.pre.stderr

\* a JSON warn line written to stderr under threshold debug
C5_Witness ==
    /\ ret.op = "warn"
    /\ ret.json
    /\ ret.pre.logLevel = DebugLevel
    /\ ret.value # Undef
    /\ stderr # <<>>
    /\ stderr[Len(stderr)] = ret.value.chars

\* C6: when the constructor has finished, stdout holds exactly one line, the
\* announcement of the resolved level's name, and stderr none if the resolved
\* level is debug; for every other resolved level both sinks are empty.
C6_AnnouncementFilteredByResolvedLevel ==
    (pc = "ready" /\ calls = 0) =>
        IF logLevel = DebugLevel
        THEN /\ Len(stdout) = 1
             /\ stderr = <<>>
             /\ Contains(stdout[1], UsingLogLevel \o logLevel.name)
             /\ Contains(stdout[1], <<"D","E","B","U","G">>)
        ELSE stdout = <<>> /\ stderr = <<>>

\* LOG_LEVEL=3 has resolved to debug and the announcement is on stdout
C6_Witness ==
    /\ pc = "ready"
    /\ env = Str(<<"3">>)
    /\ logLevel = DebugLevel
    /\ Len(stdout) = 1

\* C7: getLogLevelByName returns the registry's level of that exact name and
\* undefined for every other name; getLogLevelByPriority returns the
\* registry's level of that priority and undefined for every other integer.
C7_Lookups ==
    /\ ret.op = "getLogLevelByName" =>
          /\ \A l \in RegistryLevels : ret.name = l.name => ret.value = l
          /\ ret.name \notin { <<"e","r","r","o","r">>, <<"w","a","r","n">>,
                                <<"i","n","f","o">>, <<"d","e","b","u","g">> }
                => ret.value = Undef
    /\ ret.op = "getLogLevelByPriority" =>
          /\ \A l \in RegistryLevels : ret.priority = l.priority => ret.value = l
          /\ ret.priority \notin {0, 1, 2, 3} => ret.value = Undef

\* a name that differs from a level's name only in case is not found
C7_Witness ==
    /\ ret.op = "getLogLevelByName"
    /\ ret.name = <<"E","r","r","o","r">>
    /\ ret.value = Undef

\* the time of the last call as HH:mm:ss
ClockText == Pad2(ret.now.h) \o <<":">> \o Pad2(ret.now.m) \o <<":">> \o Pad2(ret.now.s)

\* the time of the last call in the pattern tf
TimeText(tf) ==
    IF tf = HHmmss THEN ClockText
    ELSE Pad2(ret.now.m) \o <<":">> \o NumToStr(ret.now.h)

JsonTimePrefix == <<"{", "\"", "t", "i", "m", "e", "\"", ":", "\"">>

\* C8: the time prefix of a format result, and of a human-mode line that log
\* emits, is the clock rendered in the timeFormat in effect at the call; the
\* time field of a formatJson result, and of a JSON line that log emits, is
\* the clock rendered as HH:mm:ss whatever timeFormat is.
C8_TimeFormatOnlyInHumanMode ==
    /\ (ret.op = "formatJson" \/ (AfterLog /\ ret.json /\ ret.value # Undef)) =>
          StartsWith(ret.value.chars, JsonTimePrefix \o ClockText \o <<"\"", ",">>)
    /\ ((ret.op = "format" /\ ~ret.notime) \/ (AfterLog /\ ~ret.json /\ ret.value # Undef)) =>
          StartsWith(ret.value.chars,
                     <<"[", "ESC[90m">> \o TimeText(ret.pre.timeFormat) \o <<"ESC[39m", "]", " ">>)
    /\ (ret.op = "format" /\ ret.notime) =>
          ~Contains(ret.value.chars, <<"[">>)

\* formatJson called after timeFormat was changed
C8_Witness ==
    /\ ret.op = "formatJson"
    /\ ret.pre.timeFormat # HHmmss
    /\ timeFormat # HHmmss

\* C9: after construction, setLogLevel sets logLevel to its argument and
\* leaves timeFormat; setTimeFormat sets timeFormat to its argument and leaves
\* logLevel; every other call leaves both.
C9_FieldsChangeOnlyBySetters ==
    [][ pc = "ready" =>
          /\ ret'.op = "setLogLevel" => (logLevel' = ret'.level /\ timeFormat' = timeFormat)
          /\ ret'.op = "setTimeFormat" => (timeFormat' = ret'.format /\ logLevel' = logLevel)
          /\ ret'.op \notin SetterOps => (logLevel' = logLevel /\ timeFormat' = timeFormat)
      ]_vars

\* setLogLevel has replaced the level by one that is not in the registry
C9_Witness ==
    /\ ret.op = "setLogLevel"
    /\ ret.level = traceLevel
    /\ logLevel = traceLevel
    /\ ret.pre.logLevel # traceLevel

\* the priority of the level each wrapper stands for
WrapperPriority ==
    [op \in {"error", "warn", "info", "debug"} |->
        CASE op = "error" -> 0 [] op = "warn" -> 1 [] op = "info" -> 2 [] op = "debug" -> 3]

\* C10: error, warn, info and debug leave the sinks as log with the registry
\* level of priority 0, 1, 2, 3 leaves them and resolve with the value it
\* returns; under threshold info, debug resolves with undefined and writes
\* nothing, and info(message) resolves with a line holding the message (and,
\* when json is not asked for, INFO) that is the last line of stdout.
C10_WrappersAreLog ==
    ret.op \in DOMAIN WrapperPriority =>
        /\ LET level == CHOOSE l \in RegistryLevels : l.priority = WrapperPriority[ret.op]
           IN  [stdout |-> stdout, stderr |-> stderr, value |-> ret.value]
                 = log(ret.pre.logLevel, ret.pre.timeFormat, ret.pre.stdout, ret.pre.stderr,
                       level, ret.message, ret.json, ret.now)
        /\ (ret.op = "debug" /\ ret.pre.logLevel = InfoLevel)
              => (ret.value = Undef /\ SinksUnchanged)
        /\ (ret.op = "info" /\ ret.pre.logLevel = InfoLevel)
              => /\ ret.value.type = "string"
                 /\ ~ret.json => Contains(ret.value.chars, <<"I","N","F","O">>)
                 /\ Contains(ret.value.chars, ret.message)
                 /\ stdout = Append(ret.pre.stdout, ret.value.chars)
                 /\ stderr = ret.pre.stderr

\* info("ready") under the default threshold
C10_Witness ==
    /\ ret.op = "info"
    /\ ~ret.json
    /\ ret.message = <<"r","e","a","d","y">>
    /\ env = Undef
    /\ ret.pre.logLevel = InfoLevel
    /\ ret.value # Undef
    /\ stdout # <<>>

====
